---- MODULE Spec2Model ----
(***************************************************************************)
(* Model of Bot/main.py: the rg_players upsert resolver (upsert_player),   *)
(* the /test_upsert handler, module start-up and the main() life cycle.    *)
(*                                                                         *)
(* Python values:  an optional value is a tuple of length 0 (None) or 1;   *)
(* a str is a tuple of one-character strings, so that strip(), lower()     *)
(* and ILIKE are computed character by character.                          *)
(***************************************************************************)
EXTENDS Integers, Sequences, FiniteSets, TLC

VARIABLES
    supabase,      \* the module-level client: "None" or "Client"
    constraints,   \* unique indexes the hosted table has: subset of ConflictKeys
    table,         \* rows of rg_players
    last,          \* the latest upsert_player call: record, outcome, store calls
    prev,          \* the direct call before it: record and outcome
    ncalls,        \* number of upsert_player calls made so far
    pc,            \* where the process is: module import, main(), exit
    BOT_TOKEN,     \* module global read from the environment
    REG_URL,       \* module global read from the environment
    handlers,      \* commands registered on the dispatcher dp
    session,       \* bot.session: "none", "open" or "closed"
    polling,       \* the task running dp.start_polling(bot)
    stop_event,    \* asyncio.Event set by the signal handler
    pending,       \* /test_upsert handlers waiting in await m.answer(...)
    ended          \* how the other /test_upsert handlers ended: counters

resolver == <<supabase, constraints, table, last, prev, ncalls>>
process == <<pc, BOT_TOKEN, REG_URL, handlers, session, polling, stop_event>>
events == <<pending, ended>>
vars == <<resolver, process, events>>

-----------------------------------------------------------------------------
(* Bounds                                                                  *)
MaxCalls == 2
MaxEvents == 2

-----------------------------------------------------------------------------
(* Python values                                                           *)
None == <<>>
Some(v) == <<v>>
IsNone(o) == o = <<>>
Val(o) == o[1]

Str0 == <<>>                        \* ""
LowerChar(c) == IF c = "A" THEN "a" ELSE c
Lower(s) == [i \in DOMAIN s |-> LowerChar(s[i])]

RECURSIVE LStrip(_)
LStrip(s) == IF s # <<>> /\ Head(s) = " " THEN LStrip(Tail(s)) ELSE s
RECURSIVE RStrip(_)
RStrip(s) ==
    IF s # <<>> /\ s[Len(s)] = " " THEN RStrip(SubSeq(s, 1, Len(s) - 1)) ELSE s
Strip(s) == RStrip(LStrip(s))

\* PostgreSQL ILIKE: case-insensitive, "_" matches any one character,
\* "%" any run of characters.
RECURSIVE ILike(_, _)
ILike(p, v) ==
    IF p = <<>> THEN v = <<>>
    ELSE IF Head(p) = "%"
         THEN ILike(Tail(p), v) \/ (v # <<>> /\ ILike(p, Tail(v)))
         ELSE /\ v # <<>>
              /\ (Head(p) = "_" \/ LowerChar(Head(p)) = LowerChar(Head(v)))
              /\ ILike(Tail(p), Tail(v))

-----------------------------------------------------------------------------
(* Inputs                                                                  *)
TelegramIds == {1}
Handles == { <<" ">>, <<"a">>, <<"A">>, <<"@", "A", " ">>, <<"_">> }
Nicknames == {"N1", "N2"}
ConflictKeys == {"telegram_id", "telegram_norm"}
\* store requests that can raise for a reason outside the table's content
\* ("write" is the UPDATE or the INSERT: one call issues at most one of them)
StoreOps == {"upsert", "select", "write"}

Opt(S) == {None} \cup {Some(x) : x \in S}

Records ==
    [telegram_id : Opt(TelegramIds), telegram : Opt(Handles),
     nickname : Nicknames, telegram_norm : {None}]

-----------------------------------------------------------------------------
(* The hosted table rg_players                                             *)
TABLE == "rg_players"

NewId(tbl) == Cardinality(tbl) + 1

Row(id, rec) ==
    [id |-> id, telegram_id |-> rec.telegram_id, telegram |-> rec.telegram,
     nickname |-> rec.nickname]

\* the unique index "on lower-case telegram" of the docstring
IndexNorm(row) == IF IsNone(row.telegram) THEN None ELSE Some(Lower(Val(row.telegram)))

Unique(tbl, key(_)) ==
    \A r1, r2 \in tbl :
        (r1.id # r2.id /\ ~IsNone(key(r1))) => key(r1) # key(r2)

TidOf(row) == row.telegram_id

ConstraintsHold(tbl, cons) ==
    /\ ("telegram_id" \in cons => Unique(tbl, TidOf))
    /\ ("telegram_norm" \in cons => Unique(tbl, IndexNorm))

Raise == [ok |-> FALSE, table |-> {}, data |-> {}]
Done(tbl, rows) == [ok |-> TRUE, table |-> tbl, data |-> rows]

\* .upsert(rec, on_conflict="telegram_id").execute()
StoreUpsert(tbl, cons, rec, faults) ==
    LET hit == {r \in tbl : r.telegram_id = rec.telegram_id}
        new == IF hit = {} THEN {Row(NewId(tbl), rec)}
                           ELSE {Row(r.id, rec) : r \in hit}
        tbl2 == (tbl \ hit) \cup new
    IN  IF \/ "upsert" \in faults
           \/ "telegram_id" \notin cons
           \/ ~ConstraintsHold(tbl2, cons)
        THEN Raise
        ELSE Done(tbl2, new)

\* .select("id").ilike("telegram", data): the ids of the matching rows
M_StoreSelect_NoMatch(tbl, data) == {}
StoreSelect(tbl, data) ==
    {r.id : r \in {x \in tbl : ~IsNone(x.telegram) /\ ILike(data, Val(x.telegram))}}

\* .update(rec).eq("id", player_id).execute()
StoreUpdate(tbl, cons, rec, player_id, faults) ==
    LET hit == {r \in tbl : r.id = player_id}
        new == {Row(r.id, rec) : r \in hit}
        tbl2 == (tbl \ hit) \cup new
    IN  IF "write" \in faults \/ ~ConstraintsHold(tbl2, cons)
        THEN Raise
        ELSE Done(tbl2, new)

\* .insert(rec).execute()
StoreInsert(tbl, cons, rec, faults) ==
    LET new == {Row(NewId(tbl), rec)}
        tbl2 == tbl \cup new
    IN  IF "write" \in faults \/ ~ConstraintsHold(tbl2, cons)
        THEN Raise
        ELSE Done(tbl2, new)

-----------------------------------------------------------------------------
(* upsert_player                                                           *)
Outcome(ok, via, data, error) ==
    [raised |-> FALSE, ok |-> ok, via |-> via, data |-> data, error |-> error]
Raised == [raised |-> TRUE, ok |-> FALSE, via |-> "", data |-> {}, error |-> "RuntimeError"]

\* one request to the store: what was asked, and whether the store raised
Call(op, key, payload, raised) ==
    [op |-> op, key |-> key, payload |-> payload, raised |-> raised]
IsWrite(c) == c.op \in {"upsert", "update", "insert"}

\* rec = dict(record); rec["telegram"] = str(rec["telegram"]).strip()
\* (the telegram_norm assignment is commented out: the key stays absent)
M_Normalize_NoStrip(record) == record
Normalize(record) ==
    IF IsNone(record.telegram) THEN record
    ELSE [record EXCEPT !.telegram = Some(Strip(Val(record.telegram)))]

\* step 3 of upsert_player: SELECT by ilike, then UPDATE or INSERT.
\* pick is the row the store returns for limit(1) when several rows match.
M_Fallback_AlwaysInsert(rec, tbl, cons, faults, pick) ==
    LET data == rec.telegram
        look == ~IsNone(data) /\ Val(data) # Str0
        selRaised == "select" \in faults
        sel == IF look THEN <<Call("select", Some("telegram"), data, selRaised)>>
                       ELSE <<>>
        ins == StoreInsert(tbl, cons, rec, faults)
    IN  IF look /\ selRaised
        THEN [out |-> Outcome(FALSE, "", {}, "select"), calls |-> sel, table |-> tbl]
        ELSE [out |-> IF ins.ok THEN Outcome(TRUE, "fallback:insert", ins.data, "")
                                ELSE Outcome(FALSE, "", {}, "insert"),
              calls |-> sel \o <<Call("insert", None, rec, ~ins.ok)>>,
              table |-> IF ins.ok THEN ins.table ELSE tbl]
Fallback(rec, tbl, cons, faults, pick) ==
    LET data == rec.telegram
        look == ~IsNone(data) /\ Val(data) # Str0
        selRaised == "select" \in faults
        sel == IF look THEN <<Call("select", Some("telegram"), data, selRaised)>>
                       ELSE <<>>
        found == IF look THEN StoreSelect(tbl, Val(data)) ELSE {}
        player_id == IF pick \in found THEN pick ELSE CHOOSE i \in found : TRUE
        upd == StoreUpdate(tbl, cons, rec, player_id, faults)
        ins == StoreInsert(tbl, cons, rec, faults)
    IN  IF look /\ selRaised
        THEN [out |-> Outcome(FALSE, "", {}, "select"), calls |-> sel, table |-> tbl]
        ELSE IF found # {}
        THEN [out |-> IF upd.ok THEN Outcome(TRUE, "fallback:update", upd.data, "")
                                ELSE Outcome(FALSE, "", {}, "update"),
              calls |-> sel \o <<Call("update", Some(player_id), rec, ~upd.ok)>>,
              table |-> IF upd.ok THEN upd.table ELSE tbl]
        ELSE [out |-> IF ins.ok THEN Outcome(TRUE, "fallback:insert", ins.data, "")
                                ELSE Outcome(FALSE, "", {}, "insert"),
              calls |-> sel \o <<Call("insert", None, rec, ~ins.ok)>>,
              table |-> IF ins.ok THEN ins.table ELSE tbl]

\* what one strategy block hands on: did it return, did an exception escape
Step(returned, raised, out, calls, tbl) ==
    [returned |-> returned, raised |-> raised, out |-> out, calls |-> calls,
     table |-> tbl]
Skipped(tbl) == Step(FALSE, FALSE, Outcome(FALSE, "", {}, ""), <<>>, tbl)

\* if supabase is None: raise RuntimeError(...)
M_ClientMissing_Never(client) == FALSE
ClientMissing(client) == client = "None"

\* if rec.get("telegram_id") is not None:
M_HasTelegramId_Always(rec) == TRUE
HasTelegramId(rec) == ~IsNone(rec.telegram_id)

\* block 1: try: upsert(rec, on_conflict="telegram_id"); return {...}
\*          except Exception: log.warning(...)
M_ByTelegramId_NoReturn(rec, tbl, cons, faults) ==
    LET ups == StoreUpsert(tbl, cons, rec, faults)
    IN  Step(FALSE, FALSE,
             Outcome(TRUE, "on_conflict: telegram_id", ups.data, ""),
             <<Call("upsert", Some("telegram_id"), rec, ~ups.ok)>>,
             IF ups.ok THEN ups.table ELSE tbl)
M_ByTelegramId_Propagates(rec, tbl, cons, faults) ==
    LET ups == StoreUpsert(tbl, cons, rec, faults)
    IN  Step(ups.ok, ~ups.ok,
             Outcome(TRUE, "on_conflict: telegram_id", ups.data, ""),
             <<Call("upsert", Some("telegram_id"), rec, ~ups.ok)>>,
             IF ups.ok THEN ups.table ELSE tbl)
ByTelegramId(rec, tbl, cons, faults) ==
    LET ups == StoreUpsert(tbl, cons, rec, faults)
    IN  Step(ups.ok, FALSE,
             Outcome(TRUE, "on_conflict: telegram_id", ups.data, ""),
             <<Call("upsert", Some("telegram_id"), rec, ~ups.ok)>>,
             IF ups.ok THEN ups.table ELSE tbl)

\* block 2 (upsert on_conflict="telegram_norm") is commented out in the
\* source: nothing is attempted and control reaches block 3.
M_ByTelegramNorm_Enabled(rec, tbl, cons, faults) ==
    IF IsNone(rec.telegram) THEN Skipped(tbl)
    ELSE Step(FALSE, FALSE, Outcome(FALSE, "", {}, ""),
              <<Call("upsert", Some("telegram_norm"), rec, TRUE)>>, tbl)
ByTelegramNorm(rec, tbl, cons, faults) == Skipped(tbl)

upsert_player(record, client, tbl, cons, faults, pick) ==
    LET rec == Normalize(record)
        s1 == IF HasTelegramId(rec) THEN ByTelegramId(rec, tbl, cons, faults)
                                    ELSE Skipped(tbl)
        s2 == ByTelegramNorm(rec, s1.table, cons, faults)
        fb == Fallback(rec, s2.table, cons, faults, pick)
    IN  IF ClientMissing(client)
        THEN [out |-> Raised, calls |-> <<>>, table |-> tbl]
        ELSE IF s1.raised
        THEN [out |-> Raised, calls |-> s1.calls, table |-> s1.table]
        ELSE IF s1.returned
        THEN [out |-> s1.out, calls |-> s1.calls, table |-> s1.table]
        ELSE IF s2.returned
        THEN [out |-> s2.out, calls |-> s1.calls \o s2.calls, table |-> s2.table]
        ELSE [out |-> fb.out, calls |-> s1.calls \o s2.calls \o fb.calls,
              table |-> fb.table]

-----------------------------------------------------------------------------
(* Module start-up: configuration from the environment                     *)
Commands == {"start", "registration", "help", "ping", "test_upsert"}

PathTokens == {"/form"}

\* urllib.parse.urlparse on a URL given as its tokens: the scheme is what
\* stands before ":", the netloc what follows "//" up to the path
urlparse(u) ==
    LET scheme == IF Len(u) >= 2 /\ u[2] = ":" THEN u[1] ELSE ""
        rest == IF scheme # "" THEN SubSeq(u, 3, Len(u)) ELSE u
        netloc == IF Len(rest) >= 2 /\ rest[1] = "//" /\ rest[2] \notin PathTokens
                  THEN rest[2] ELSE ""
    IN  [scheme |-> scheme, netloc |-> netloc]

M_is_valid_url_Any(u) == TRUE
_is_valid_url(u) ==
    LET p == urlparse(u)
    IN  p.scheme \in {"http", "https"} /\ p.netloc # ""

\* truth value of an optional str
Truthy(o) == ~IsNone(o) /\ Val(o) # ""
TruthyUrl(o) == ~IsNone(o) /\ Val(o) # <<>>

RegUrls ==
    { <<>>, <<"not-a-url">>, <<"ftp", ":", "//", "host", "/form">>,
      <<"https", ":", "//", "/form">>, <<"//", "host">>,
      <<"http", ":", "//", "/form">>, <<"https", ":", "//", "host", "/form">> }

Environ ==
    [BOT_TOKEN : Opt({"", "tok"}), TELEGRAM_BOT_TOKEN : Opt({"tok"}),
     REG_URL : Opt(RegUrls), SUPABASE_URL : Opt({"url"}), SUPABASE_KEY : Opt({"key"})]

\* the three start-up checks: lines 29-32 and 41-42
ConfigOk(token, url) ==
    /\ Truthy(token)
    /\ TruthyUrl(url)
    /\ _is_valid_url(Val(url))

-----------------------------------------------------------------------------
(* The resolver called with any record                                     *)
NoneEnded == [replied |-> 0, send_failed |-> 0, dropped |-> 0, crashed |-> 0]
NoCall == [rec |-> None, out |-> None, calls |-> <<>>, faults |-> {}]

Init ==
    /\ supabase \in {"None", "Client"}
    /\ constraints \in SUBSET ConflictKeys
    /\ table = {}
    /\ last = NoCall
    /\ prev = NoCall
    /\ ncalls = 0
    /\ pc = "loaded"
    /\ BOT_TOKEN = Some("tok")
    /\ REG_URL = Some(<<"https", ":", "//", "host", "/form">>)
    /\ handlers = Commands
    /\ session = "none"
    /\ polling = "none"
    /\ stop_event = FALSE
    /\ pending = <<>>
    /\ ended = NoneEnded

\* the rows limit(1) may return for this record
Picks(record, tbl) ==
    LET data == Normalize(record).telegram
        found == IF IsNone(data) THEN {} ELSE StoreSelect(tbl, Val(data))
    IN  IF found = {} THEN {0} ELSE found

\* the store requests a call with this record can issue
Issuable(record) ==
    LET rec == Normalize(record)
    IN  {"write"}
        \cup (IF IsNone(rec.telegram_id) THEN {} ELSE {"upsert"})
        \cup (IF IsNone(rec.telegram) \/ Val(rec.telegram) = Str0 THEN {} ELSE {"select"})

\* the store requests a call did issue
Issued(calls) ==
    {IF calls[i].op \in {"update", "insert"} THEN "write" ELSE calls[i].op :
        i \in DOMAIN calls}

CallUpsertPlayer ==
    /\ ncalls < MaxCalls
    /\ \E record \in Records :
       \E faults \in SUBSET Issuable(record), pick \in Picks(record, table) :
          LET res == upsert_player(record, supabase, table, constraints, faults, pick)
          IN  /\ faults \subseteq Issued(res.calls)
              /\ table' = res.table
              /\ last' = [rec |-> Some(record), out |-> Some(res.out), calls |-> res.calls,
                          faults |-> faults]
              /\ prev' = [last EXCEPT !.calls = <<>>, !.faults = {}]
    /\ ncalls' = ncalls + 1
    /\ UNCHANGED <<supabase, constraints, process, events>>

Next == CallUpsertPlayer

Spec == Init /\ [][Next]_vars

-----------------------------------------------------------------------------
(* The process: import of the module, main(), the /test_upsert handler     *)
BotInit ==
    /\ supabase = "None"
    /\ constraints \in SUBSET ConflictKeys
    /\ table = {}
    /\ last = NoCall
    /\ prev = NoCall
    /\ ncalls = 0
    /\ pc = "start"
    /\ BOT_TOKEN = None
    /\ REG_URL = None
    /\ handlers = {}
    /\ session = "none"
    /\ polling = "none"
    /\ stop_event = FALSE
    /\ pending = <<>>
    /\ ended = NoneEnded

\* lines 23-98: the module body, run once at import
ImportModule ==
    /\ pc = "start"
    /\ \E env \in Environ :
          LET token == IF Truthy(env.BOT_TOKEN) THEN env.BOT_TOKEN
                                               ELSE env.TELEGRAM_BOT_TOKEN
          IN  /\ BOT_TOKEN' = token
              /\ REG_URL' = env.REG_URL
              /\ IF ConfigOk(token, env.REG_URL)
                 THEN /\ supabase' = IF Truthy(env.SUPABASE_URL) /\ Truthy(env.SUPABASE_KEY)
                                     THEN "Client" ELSE "None"
                      /\ handlers' = Commands
                      /\ pc' = "loaded"
                 ELSE /\ supabase' = "None"
                      /\ handlers' = {}
                      /\ pc' = "failed"
    /\ UNCHANGED <<constraints, table, last, prev, ncalls, session, polling,
                   stop_event, events>>

\* main(): bot = Bot(BOT_TOKEN); await set_commands(bot)
MainStart ==
    /\ pc = "loaded"
    /\ session' = "open"
    /\ pc' = "set_commands"
    /\ UNCHANGED <<resolver, BOT_TOKEN, REG_URL, handlers, polling, stop_event, events>>

\* set_commands returns: signal handlers installed, polling task created,
\* main waits on stop_event (lines 216-228)
StartPolling ==
    /\ pc = "set_commands"
    /\ polling' = "running"
    /\ pc' = "wait_stop"
    /\ UNCHANGED <<resolver, BOT_TOKEN, REG_URL, handlers, session, stop_event, events>>

\* bot.set_my_commands raises: main() ends with the exception
SetCommandsFails ==
    /\ pc = "set_commands"
    /\ pc' = "crashed"
    /\ UNCHANGED <<resolver, BOT_TOKEN, REG_URL, handlers, session, polling,
                   stop_event, events>>

\* _handler: SIGINT or SIGTERM sets stop_event
_handler ==
    /\ pc = "wait_stop"
    /\ ~stop_event
    /\ stop_event' = TRUE
    /\ UNCHANGED <<resolver, pc, BOT_TOKEN, REG_URL, handlers, session, polling, events>>

\* dp.start_polling(bot) ends with an exception of its own
PollingFails ==
    /\ polling = "running"
    /\ polling' = "failed"
    /\ UNCHANGED <<resolver, pc, BOT_TOKEN, REG_URL, handlers, session, stop_event, events>>

\* dp.start_polling(bot) returns by itself: the task is done, main() still
\* waits on stop_event
PollingReturns ==
    /\ polling = "running"
    /\ polling' = "finished"
    /\ UNCHANGED <<resolver, pc, BOT_TOKEN, REG_URL, handlers, session, stop_event, events>>

\* stop_event.wait() returns; polling.cancel() (no effect on a task that is
\* done); await polling is entered
MainCancel ==
    /\ pc = "wait_stop"
    /\ stop_event
    /\ polling' = IF polling = "running" THEN "cancelling" ELSE polling
    /\ pc' = "await_polling"
    /\ UNCHANGED <<resolver, BOT_TOKEN, REG_URL, handlers, session, stop_event, events>>

\* the polling task takes the CancelledError and finishes
PollingCancelled ==
    /\ polling = "cancelling"
    /\ polling' = "cancelled"
    /\ UNCHANGED <<resolver, pc, BOT_TOKEN, REG_URL, handlers, session, stop_event, events>>

\* with suppress(asyncio.CancelledError): await polling
\* only CancelledError is suppressed: another exception of the task leaves main()
\* (asyncio.run then cancels the handlers still waiting for their answer)
M_MainAwaited_NoAwait ==
    /\ pc = "await_polling"
    /\ pc' = "shutdown"
    /\ UNCHANGED <<resolver, BOT_TOKEN, REG_URL, handlers, session, polling,
                   stop_event, events>>
MainAwaited ==
    /\ pc = "await_polling"
    /\ polling \in {"cancelled", "finished", "failed"}
    /\ IF polling \in {"cancelled", "finished"}
       THEN /\ pc' = "shutdown"
            /\ UNCHANGED events
       ELSE /\ pc' = "crashed"
            /\ pending' = <<>>
            /\ ended' = [ended EXCEPT !.dropped = @ + Len(pending)]
    /\ UNCHANGED <<resolver, BOT_TOKEN, REG_URL, handlers, session, polling,
                   stop_event>>

\* _shutdown(bot): await bot.session.close()
\* requests still in flight when the session goes away get no answer
_shutdown ==
    /\ pc = "shutdown"
    /\ session' = "closed"
    /\ pending' = <<>>
    /\ ended' = [ended EXCEPT !.dropped = @ + Len(pending)]
    /\ pc' = "exited"
    /\ UNCHANGED <<resolver, BOT_TOKEN, REG_URL, handlers, polling, stop_event>>

-----------------------------------------------------------------------------
(* cmd_test_upsert                                                         *)
UserIds == {1, 2}
DemoUser == <<"d", "e", "m", "o", "_", "u", "s", "e", "r">>
\* what follows "/test_upsert" in m.text
Texts == { <<" ">>, <<" ", "A", " ">> }

\* m.text.split(maxsplit=1): the command, and the rest when there is one
\* (leading whitespace of the rest is dropped, trailing whitespace kept)
SplitArgs(text) ==
    LET rest == LStrip(text)
    IN  IF rest = <<>> THEN << <<"/test_upsert">> >>
                       ELSE << <<"/test_upsert">>, rest >>

Sample(user, text) ==
    LET args == SplitArgs(text)
        tg_user == IF Len(args) > 1 THEN Strip(args[2]) ELSE DemoUser
    IN  [telegram_id |-> Some(user), telegram |-> Some(tg_user),
         nickname |-> "DeKo_Sun", telegram_norm |-> None]

\* the text handed to m.answer
Unconfigured == [kind |-> "unconfigured", via |-> "", count |-> 0, error |-> ""]
M_ReplyFor_OkOnly(out) ==
    [kind |-> "ok", via |-> out.via, count |-> Cardinality(out.data), error |-> ""]
ReplyFor(out) ==
    IF out.ok
    THEN [kind |-> "ok", via |-> out.via, count |-> Cardinality(out.data), error |-> ""]
    ELSE [kind |-> "error", via |-> "", count |-> 0, error |-> out.error]

Dispatched ==
    Len(pending) + ended.replied + ended.send_failed + ended.dropped + ended.crashed

\* a handler suspended in await m.answer(reply); called: it called upsert_player
Answering(called, reply) ==
    [id |-> Dispatched + 1, called |-> called, reply |-> reply]

\* the handler from its dispatch to its await m.answer(...): the store
\* client is synchronous, so nothing else runs in between
cmd_test_upsert ==
    /\ polling = "running"
    /\ "test_upsert" \in handlers
    /\ Dispatched < MaxEvents
    /\ \E user \in UserIds, text \in Texts :
          IF supabase = "None"
          THEN /\ pending' = Append(pending, Answering(FALSE, Unconfigured))
               /\ UNCHANGED <<table, last, ncalls, ended>>
          ELSE LET sample == Sample(user, text)
               IN  \E faults \in SUBSET Issuable(sample), pick \in Picks(sample, table) :
                     LET res == upsert_player(sample, supabase, table, constraints,
                                              faults, pick)
                     IN  /\ faults \subseteq Issued(res.calls)
                         /\ table' = res.table
                         /\ last' = [rec |-> Some(sample), out |-> Some(res.out),
                                     calls |-> res.calls, faults |-> faults]
                         /\ ncalls' = ncalls + 1
                         /\ IF res.out.raised
                            THEN /\ ended' = [ended EXCEPT !.crashed = @ + 1]
                                 /\ UNCHANGED pending
                            ELSE /\ pending' = Append(pending,
                                        Answering(TRUE, ReplyFor(res.out)))
                                 /\ UNCHANGED ended
    /\ UNCHANGED <<supabase, constraints, prev, process>>

Without(seq, i) == SubSeq(seq, 1, i - 1) \o SubSeq(seq, i + 1, Len(seq))

\* m.answer returns: the reply is in the chat, the handler ends
ReplyDelivered(i) ==
    /\ session = "open"
    /\ pending' = Without(pending, i)
    /\ ended' = [ended EXCEPT !.replied = @ + 1]
    /\ UNCHANGED <<resolver, process>>

\* m.answer raises (network or API error): the handler ends without a reply
ReplyFails(i) ==
    /\ session = "open"
    /\ pending' = Without(pending, i)
    /\ ended' = [ended EXCEPT !.send_failed = @ + 1]
    /\ UNCHANGED <<resolver, process>>

AnswerReturns == \E i \in DOMAIN pending : ReplyDelivered(i) \/ ReplyFails(i)

BotNext ==
    \/ ImportModule
    \/ MainStart
    \/ StartPolling
    \/ SetCommandsFails
    \/ _handler
    \/ PollingFails
    \/ PollingReturns
    \/ MainCancel
    \/ PollingCancelled
    \/ MainAwaited
    \/ _shutdown
    \/ cmd_test_upsert
    \/ AnswerReturns

\* the event loop runs every task that can run; signals and chat events
\* arrive when they arrive
BotSpec ==
    /\ BotInit
    /\ [][BotNext]_vars
    /\ WF_vars(ImportModule)
    /\ WF_vars(MainStart)
    /\ WF_vars(StartPolling \/ SetCommandsFails)
    /\ WF_vars(MainCancel)
    /\ WF_vars(PollingCancelled)
    /\ WF_vars(MainAwaited)
    /\ WF_vars(_shutdown)
    /\ WF_vars(AnswerReturns)

-----------------------------------------------------------------------------
(* Reading the latest calls                                                *)
Called == ~IsNone(last.rec)
CalledTwice == Called /\ ~IsNone(prev.rec)
LastRec == Val(last.rec)
LastOut == Val(last.out)
PrevRec == Val(prev.rec)
PrevOut == Val(prev.out)
Configured == supabase = "Client"
Blank(t) == IsNone(t) \/ Strip(Val(t)) = Str0
Ops(calls) == [i \in DOMAIN calls |-> calls[i].op]
RowsWithId(tid) == {r \in table : r.telegram_id = tid}
RowsWithHandle(h) == {r \in table : r.telegram = Some(h)}

-----------------------------------------------------------------------------
(* C1: a record with telegram_id set whose upsert on conflict key          *)
(* telegram_id the store accepts is reported as 'on_conflict: telegram_id',*)
(* with exactly one store request, that upsert: no lookup, no other write. *)
C1_IdentifierStrategy ==
    (/\ Called /\ Configured
     /\ ~IsNone(LastRec.telegram_id)
     /\ last.calls # <<>> /\ ~last.calls[1].raised)
    => /\ LastOut.ok /\ ~LastOut.raised
       /\ LastOut.via = "on_conflict: telegram_id"
       /\ Len(last.calls) = 1
       /\ last.calls[1].op = "upsert"
       /\ last.calls[1].key = Some("telegram_id")
       /\ Cardinality(RowsWithId(LastRec.telegram_id)) = 1

C1_Witness ==
    /\ Called /\ Configured
    /\ ~IsNone(LastRec.telegram_id)
    /\ last.calls # <<>> /\ ~last.calls[1].raised
    /\ LastOut.via = "on_conflict: telegram_id"
    /\ CalledTwice /\ Cardinality(table) = 2

(* C2: calling upsert_player twice in a row with the same record, which    *)
(* has telegram_id set, leaves exactly one row with that telegram_id, and  *)
(* its fields are the record's (handle trimmed), whatever unique indexes   *)
(* the table has.                                                          *)
C2_Idempotent ==
    (/\ CalledTwice /\ Configured
     /\ PrevRec = LastRec
     /\ ~IsNone(LastRec.telegram_id)
     /\ PrevOut.ok /\ LastOut.ok)
    => /\ Cardinality(RowsWithId(LastRec.telegram_id)) = 1
       /\ \A r \in RowsWithId(LastRec.telegram_id) :
             /\ r.telegram = Normalize(LastRec).telegram
             /\ r.nickname = LastRec.nickname

(* C3 as stated: a record without telegram_id and with a non-empty handle  *)
(* gets an upsert on conflict key telegram_norm before the manual path,    *)
(* and with a telegram_norm unique index that upsert is the strategy used. *)
C3_NormAttemptedFirst ==
    (/\ Called /\ Configured
     /\ IsNone(LastRec.telegram_id) /\ ~Blank(LastRec.telegram))
    => /\ last.calls # <<>>
       /\ last.calls[1].op = "upsert"
       /\ last.calls[1].key = Some("telegram_norm")
       /\ ("telegram_norm" \in constraints /\ ~last.calls[1].raised)
             => /\ LastOut.via = "on_conflict: telegram_norm"
                /\ \A i \in DOMAIN last.calls : last.calls[i].op # "select"

(* C3 amended: no upsert on conflict key telegram_norm is ever requested;  *)
(* for a record without telegram_id whose handle is non-empty after        *)
(* trimming the first store request is the manual lookup, and the strategy *)
(* reported on success is fallback:update or fallback:insert, also when    *)
(* the table has a telegram_norm unique index.                             *)
C3_ManualPathOnly ==
    Called =>
      /\ \A i \in DOMAIN last.calls :
            last.calls[i].op = "upsert" => last.calls[i].key = Some("telegram_id")
      /\ (/\ Configured
          /\ IsNone(LastRec.telegram_id) /\ ~Blank(LastRec.telegram))
         => /\ last.calls # <<>>
            /\ last.calls[1].op = "select"
            /\ last.calls[1].payload = Some(Strip(Val(LastRec.telegram)))
            /\ LastOut.ok => LastOut.via \in {"fallback:update", "fallback:insert"}

C3_Witness ==
    /\ Called /\ Configured
    /\ IsNone(LastRec.telegram_id) /\ ~Blank(LastRec.telegram)
    /\ "telegram_norm" \in constraints
    /\ LastOut.ok /\ LastOut.via = "fallback:update"
    /\ Ops(last.calls) = <<"select", "update">>

\* the normalized handle of the data model: trimmed, one leading "@"
\* stripped, lower-cased
TelegramNorm(t) ==
    LET s == Strip(t)
    IN  Lower(IF s # <<>> /\ Head(s) = "@" THEN Tail(s) ELSE s)

(* C4 as stated: when the record's telegram is not None, every write sent  *)
(* to the store carries telegram_norm = the trimmed handle with a leading  *)
(* "@" stripped, lower-cased.                                              *)
C4_WritesCarryNorm ==
    (Called /\ ~IsNone(LastRec.telegram))
    => \A i \in DOMAIN last.calls :
          IsWrite(last.calls[i]) =>
             last.calls[i].payload.telegram_norm
                = Some(TelegramNorm(Val(LastRec.telegram)))

(* C4 amended: when the record's telegram is not None, every write sent to *)
(* the store carries telegram = the handle trimmed (case and "@" kept),    *)
(* carries no telegram_norm, and carries the record's other fields as      *)
(* given.                                                                  *)
C4_WritesCarryTrimmed ==
    (Called /\ ~IsNone(LastRec.telegram))
    => \A i \in DOMAIN last.calls :
          IsWrite(last.calls[i]) =>
             /\ last.calls[i].payload.telegram = Some(Strip(Val(LastRec.telegram)))
             /\ last.calls[i].payload.telegram_norm = None
             /\ last.calls[i].payload.telegram_id = LastRec.telegram_id
             /\ last.calls[i].payload.nickname = LastRec.nickname

C4_Witness ==
    /\ Called
    /\ LastRec.telegram = Some(<<"@", "A", " ">>)
    /\ LastOut.ok
    /\ \E i \in DOMAIN last.calls :
          /\ IsWrite(last.calls[i])
          /\ last.calls[i].payload.telegram = Some(<<"@", "A">>)
    /\ \E r \in table : r.telegram = Some(<<"@", "A">>)

(* C5: after a manual insert of a record with a handle, a second call with *)
(* the same handle and another nickname, for which the identifier strategy *)
(* is not available (no telegram_id, or its upsert is refused) and whose   *)
(* lookup and write the store answers, takes the manual path, finds the    *)
(* inserted row, updates it (fallback:update), and the table then holds    *)
(* exactly one row with that handle, carrying the new nickname.            *)
C5_RoundTrip ==
    (/\ CalledTwice /\ Configured
     /\ PrevOut.ok /\ PrevOut.via = "fallback:insert"
     /\ ~Blank(LastRec.telegram)
     /\ LastRec.telegram = PrevRec.telegram
     /\ LastRec.telegram_id = PrevRec.telegram_id
     /\ LastRec.nickname # PrevRec.nickname
     /\ \/ IsNone(LastRec.telegram_id)
        \/ "telegram_id" \notin constraints
        \/ "upsert" \in last.faults
     /\ last.faults \cap {"select", "write"} = {})
    => LET h == Strip(Val(LastRec.telegram))
           n == Len(last.calls)
       IN  /\ LastOut.ok /\ LastOut.via = "fallback:update"
           /\ n >= 2
           /\ last.calls[n - 1].op = "select"
           /\ last.calls[n].op = "update"
           /\ \E r \in PrevOut.data : last.calls[n].key = Some(r.id)
           /\ Cardinality(RowsWithHandle(h)) = 1
           /\ Cardinality({r \in table : ~IsNone(r.telegram)
                                          /\ ILike(h, Val(r.telegram))}) = 1
           /\ \A r \in RowsWithHandle(h) : r.nickname = LastRec.nickname

C5_Witness ==
    /\ CalledTwice /\ Configured
    /\ PrevOut.ok /\ PrevOut.via = "fallback:insert"
    /\ PrevRec = [telegram_id |-> None, telegram |-> Some(<<"a">>),
                  nickname |-> "N1", telegram_norm |-> None]
    /\ LastRec = [PrevRec EXCEPT !.nickname = "N2"]
    /\ LastOut.ok /\ LastOut.via = "fallback:update"
    /\ table = {[id |-> 1, telegram_id |-> None, telegram |-> Some(<<"a">>),
                 nickname |-> "N2"]}

(* C6: with a client configured, a record with neither telegram_id nor     *)
(* telegram gets no conflict-key upsert and no lookup, exactly one insert, *)
(* and an outcome rather than an exception: fallback:insert when the store *)
(* accepts the insert, success false with an error message when not.       *)
C6_NoKeysInsertOnce ==
    (/\ Called /\ Configured
     /\ IsNone(LastRec.telegram_id) /\ IsNone(LastRec.telegram))
    => /\ Len(last.calls) = 1
       /\ last.calls[1].op = "insert"
       /\ last.calls[1].payload = LastRec
       /\ ~LastOut.raised
       /\ last.calls[1].raised => (~LastOut.ok /\ LastOut.error # "")
       /\ ~last.calls[1].raised
             => (LastOut.ok /\ LastOut.via = "fallback:insert"
                 /\ Cardinality(LastOut.data) = 1 /\ LastOut.data \subseteq table)

C6_Witness ==
    /\ CalledTwice /\ Configured
    /\ IsNone(LastRec.telegram_id) /\ IsNone(LastRec.telegram)
    /\ PrevRec = LastRec /\ PrevOut.ok
    /\ Ops(last.calls) = <<"insert">>
    /\ last.calls[1].raised /\ ~LastOut.ok /\ ~LastOut.raised
    /\ Cardinality(table) = 1

(* C7 as stated: no call of upsert_player ever raises to its caller.       *)
C7_NeverRaises == Called => ~LastOut.raised

(* C7 amended: with a database client configured no call of upsert_player  *)
(* raises to its caller: a refused upsert is followed by the manual path,  *)
(* the call reports success exactly when its last store request was        *)
(* answered, and otherwise returns success false with an error message and *)
(* no row written.  (With no client configured it raises: see C8.)         *)
C7_NoRaiseWhenConfigured ==
    (Called /\ Configured)
    => LET n == Len(last.calls)
       IN  /\ ~LastOut.raised
           /\ n >= 1
           /\ (last.calls[1].op = "upsert" /\ last.calls[1].raised) => n >= 2
           /\ \A i \in 1..(n - 1) : last.calls[i].raised => last.calls[i].op = "upsert"
           /\ LastOut.ok <=> ~last.calls[n].raised
           /\ ~LastOut.ok => (LastOut.error # "" /\ LastOut.data = {})

C7_Witness ==
    /\ Called /\ Configured
    /\ Ops(last.calls) = <<"upsert", "select", "update">>
    /\ last.calls[1].raised /\ ~last.calls[2].raised /\ last.calls[3].raised
    /\ ~LastOut.ok /\ ~LastOut.raised /\ LastOut.error = "update"

(* C8: with no database client configured, upsert_player raises the        *)
(* configuration error before any strategy: no store request is made, no   *)
(* row is written, and the raise is not the success-false outcome (which   *)
(* only configured calls return).                                          *)
C8_UnconfiguredRaises ==
    Called =>
      /\ ~Configured
           => /\ LastOut.raised /\ LastOut.error = "RuntimeError"
              /\ last.calls = <<>>
              /\ table = {}
      /\ LastOut.raised => (~Configured /\ ~LastOut.ok)

C8_Witness ==
    /\ CalledTwice /\ ~Configured
    /\ LastOut.raised /\ PrevOut.raised
    /\ ~IsNone(LastRec.telegram_id) /\ ~Blank(LastRec.telegram)
    /\ last.calls = <<>> /\ table = {}

-----------------------------------------------------------------------------
(* C9 as stated: every dispatched /test_upsert event gets its reply: no    *)
(* event whose send the chat platform accepts ends without one.            *)
C9_EveryEventReplied == ended.dropped = 0 /\ ended.crashed = 0

(* C9 amended: for every dispatched /test_upsert event the handler issues  *)
(* exactly one reply and never ends in an exception of its own: the 'not   *)
(* configured' text, without calling upsert_player, when there is no       *)
(* client; the success text with the strategy used and the row count when  *)
(* upsert_player succeeds; the text with the error message when it fails.  *)
(* The handler leaves the process serving (polling, session, handlers      *)
(* untouched).  The reply reaches the chat unless the send itself raises   *)
(* or main() ends (shutdown closing the session, or an exception of the    *)
(* polling task) while the send is in flight: then the event gets no       *)
(* reply; in every case the send ends.                                     *)
C9_ReplyIssued ==
    /\ ended.crashed = 0
    /\ supabase = "None" => ncalls = 0
    /\ supabase = "Client" => ncalls = Dispatched
    /\ \A i \in DOMAIN pending :
          /\ pending[i].called <=> supabase = "Client"
          /\ ~pending[i].called => pending[i].reply = Unconfigured
          /\ pending[i].called
                => LET r == pending[i].reply
                   IN  \/ /\ r.kind = "ok" /\ r.count = 1 /\ r.error = ""
                          /\ r.via \in {"on_conflict: telegram_id", "fallback:update",
                                        "fallback:insert"}
                       \/ r.kind = "error" /\ r.error # "" /\ r.via = ""
    /\ \A i \in DOMAIN pending :
          (pending[i].called /\ pending[i].id = Dispatched)
             => LET r == pending[i].reply
                IN  /\ Called
                    /\ LastOut.ok => (r.kind = "ok" /\ r.via = LastOut.via
                                      /\ r.count = Cardinality(LastOut.data))
                    /\ ~LastOut.ok => (r.kind = "error" /\ r.error = LastOut.error)

C9_HandlerReplies ==
    /\ []C9_ReplyIssued
    /\ [][/\ Dispatched' >= Dispatched
          /\ Dispatched' > Dispatched
                => /\ UNCHANGED <<process, ended>>
                   /\ Len(pending') = Len(pending) + 1
                   /\ SubSeq(pending', 1, Len(pending)) = pending
          /\ ended'.dropped > ended.dropped
                => \/ session = "open" /\ session' = "closed"
                   \/ pc # "crashed" /\ pc' = "crashed"
          /\ ended'.replied + ended'.send_failed > ended.replied + ended.send_failed
                => /\ session = "open"
                   /\ Len(pending') = Len(pending) - 1
                   /\ ended'.replied + ended'.send_failed
                         = ended.replied + ended.send_failed + 1]_vars
    /\ []<>(pending = <<>>)

C9_Witness ==
    /\ Len(pending) = 1 /\ pending[1].reply.kind = "error" /\ pending[1].id = 2
    /\ ended.replied = 1 /\ ended.send_failed = 0 /\ ended.dropped = 0
    /\ Called /\ ~LastOut.ok
    /\ polling = "running" /\ session = "open"

\* an absolute http or https URL with a host, on the tokens of the URL
AbsoluteHttpUrl(u) ==
    /\ Len(u) >= 4
    /\ u[1] \in {"http", "https"} /\ u[2] = ":" /\ u[3] = "//"
    /\ u[4] \notin PathTokens

(* C10: when the bot token is missing, REG_URL is missing or REG_URL is    *)
(* not an absolute http/https URL with a host, the import ends in the      *)
(* fatal configuration error with no handler registered, no database       *)
(* client created, no session, no polling task, and no event is ever       *)
(* dispatched; and the import fails in no other case.                      *)
C10_FailFast ==
    pc # "start" =>
      LET bad == \/ IsNone(BOT_TOKEN) \/ Val(BOT_TOKEN) = ""
                 \/ IsNone(REG_URL) \/ Val(REG_URL) = <<>>
                 \/ ~AbsoluteHttpUrl(Val(REG_URL))
      IN  /\ bad <=> pc = "failed"
          /\ bad => /\ handlers = {}
                    /\ supabase = "None"
                    /\ session = "none"
                    /\ polling = "none"
                    /\ Dispatched = 0 /\ ncalls = 0

C10_Witness ==
    /\ pc = "failed"
    /\ BOT_TOKEN = Some("tok")
    /\ REG_URL = Some(<<"http", ":", "//", "/form">>)
    /\ handlers = {} /\ supabase = "None"

-----------------------------------------------------------------------------
(* C11: once a signal has set stop_event while main() waits on it, the     *)
(* process eventually has its polling task ended, its session closed and   *)
(* main() returned normally, also when the polling task had ended or       *)
(* failed before it is awaited: main() does not end with an exception     *)
(* after the signal; and the session, once closed, stays closed.           *)
C11_SignalExitsCleanly ==
    /\ [](stop_event => pc # "crashed")
    /\ [][session = "closed" => session' = "closed"]_vars
    /\ (stop_event /\ polling = "running")
          ~> (/\ pc = "exited"
              /\ session = "closed"
              /\ polling \notin {"running", "cancelling"})

-----------------------------------------------------------------------------
\* the rows a lookup by this pattern matches
Matching(tbl, data) == {r \in tbl : ~IsNone(r.telegram) /\ ILike(data, Val(r.telegram))}

(* C12 as stated: the store requests of upsert_player are suspension       *)
(* points, so that the lookup and the write of one handler invocation are  *)
(* separate steps of the process between which another invocation's lookup *)
(* can run: no step of the process issues more than one store request.     *)
C12_StoreCallsSuspend ==
    [][ncalls' = ncalls + 1 => Len(last'.calls) <= 1]_vars

(* C12 amended: upsert_player has no suspension point (its store client is *)
(* synchronous), so two handler invocations in the same process do not     *)
(* interleave at their store calls: an invocation's insert is made in the  *)
(* same step as its lookup, on a table in which no row matches the handle, *)
(* and adds one row; with a store that enforces no uniqueness constraint   *)
(* the handlers of one process never leave two rows with the same handle:  *)
(* the second invocation for a handle finds the row and updates it.        *)
C12_NoInProcessRace ==
    /\ [](constraints = {}
            => \A r1, r2 \in table : r1.telegram = r2.telegram => r1.id = r2.id)
    /\ [][(ncalls' = ncalls + 1 /\ constraints = {})
            => LET c == last'.calls
                   n == Len(c)
               IN  /\ n \in {2, 3}
                   /\ c[1].op = "upsert" /\ c[1].raised
                   /\ c[2].op = "select"
                   /\ c[2].raised <=> n = 2
                   /\ n = 2 => table' = table
                   /\ n = 3 =>
                         /\ c[3].op \in {"update", "insert"}
                         /\ c[3].op = "insert"
                               <=> Matching(table, Val(c[2].payload)) = {}
                         /\ (c[3].op = "insert" /\ ~c[3].raised)
                               => /\ table \subseteq table'
                                  /\ Cardinality(table') = Cardinality(table) + 1
                         /\ c[3].op = "update"
                               => Cardinality(table') = Cardinality(table)
          ]_vars

C12_Witness ==
    /\ constraints = {} /\ Configured
    /\ Len(pending) = 2
    /\ pending[1].called /\ pending[1].reply.via = "fallback:insert"
    /\ pending[2].called /\ pending[2].reply.via = "fallback:update"
    /\ Called /\ Cardinality(table) = 1
    /\ \A r \in table : r.telegram = LastRec.telegram

-----------------------------------------------------------------------------
(* C13: main() never closes the session while the polling task is still    *)
(* running: the session is closed only by _shutdown, after stop_event has  *)
(* been set, the polling task has been cancelled (when it was still        *)
(* running) and has been awaited to its end; the task is cancelled only    *)
(* after the signal; the session is not closed before a signal.            *)
C13_ShutdownOrdering ==
    /\ [](session = "closed"
            => /\ stop_event
               /\ polling \in {"cancelled", "finished"}
               /\ pc = "exited")
    /\ [][(session' = "closed" /\ session # "closed")
            => /\ session = "open" /\ pc = "shutdown" /\ stop_event
               /\ polling \notin {"none", "running", "cancelling"}
               /\ polling' = polling]_vars
    /\ [][(polling' = "cancelling" /\ polling # "cancelling")
            => /\ polling = "running" /\ stop_event
               /\ session = "open" /\ session' = "open"
               /\ pc = "wait_stop" /\ pc' = "await_polling"]_vars
    /\ [][(pc' = "shutdown" /\ pc # "shutdown")
            => pc = "await_polling" /\ polling \in {"cancelled", "finished"}]_vars

C13_Witness ==
    /\ session = "closed" /\ pc = "exited"
    /\ stop_event /\ polling = "cancelled"
    /\ ended.dropped = 1

-----------------------------------------------------------------------------
\* the normalized handle of a row or record field; None when there is none
NormOf(t) == IF IsNone(t) THEN None ELSE Some(TelegramNorm(Val(t)))

(* C14: on the manual path the row updated is one whose normalized handle  *)
(* (trimmed, leading "@" stripped, lower-cased) equals the record's, and   *)
(* a row is inserted only when the table holds no row whose normalized     *)
(* handle equals the record's.                                             *)
C14_MatchesNormalizedHandle ==
    [][(ncalls' = ncalls + 1 /\ ~IsNone(Val(last'.rec).telegram))
         => LET rec == Val(last'.rec)
                c == last'.calls
            IN  \A i \in DOMAIN c :
                   /\ c[i].op = "update"
                         => \A r \in table :
                               r.id = Val(c[i].key)
                                  => NormOf(r.telegram) = NormOf(rec.telegram)
                   /\ (c[i].op = "insert" /\ i > 1 /\ c[i - 1].op = "select")
                         => \A r \in table :
                               NormOf(r.telegram) # NormOf(rec.telegram)
      ]_vars

-----------------------------------------------------------------------------
(* C15: a call whose record carries telegram_id X leaves every row whose   *)
(* telegram_id is another non-null value as it was, whatever the table     *)
(* holds and whatever unique indexes it has.                               *)
C15_IdentifiedByTelegramIdAlone ==
    [][(ncalls' = ncalls + 1 /\ ~IsNone(Val(last'.rec).telegram_id))
         => \A r \in table :
               (~IsNone(r.telegram_id) /\ r.telegram_id # Val(last'.rec).telegram_id)
                  => r \in table'
      ]_vars

-----------------------------------------------------------------------------
\* the manual-path requests of a call: what follows a refused upsert
ManualCalls(calls) ==
    IF calls # <<>> /\ calls[1].op = "upsert" THEN Tail(calls) ELSE calls

====
